---- MODULE Spec2Model ----
(***************************************************************************)
(* Model of the headercheck engine (internal/engine): header detection,    *)
(* template rendering, semantic matching, the rewrite planner and the      *)
(* per-file decision policy, plus Engine.Process over a small file tree.   *)
(*                                                                         *)
(* File contents are byte strings, modelled as sequences of one-character  *)
(* strings.  Offsets are 0-based as in the Go code: byte i of a content c  *)
(* is c[i+1].                                                              *)
(***************************************************************************)
EXTENDS Integers, Sequences, FiniteSets, TLC

\* ------------------------------------------------------------------------
\* Byte-string helpers (package bytes / strings)
\* ------------------------------------------------------------------------

\* content[a:b] with 0-based, end-exclusive offsets
Slice(s, a, b) == SubSeq(s, a + 1, b)

\* content[a:]
From(s, a) == SubSeq(s, a + 1, Len(s))

\* unicode.IsSpace restricted to the bytes of the model's alphabet
IsSpace(c) == c \in {" ", "\t", "\n", "\r", "\f"}

\* bytes.IndexByte(s[pos:], c): offset relative to pos, or -1
IndexByteFrom(s, pos, c) ==
    LET RECURSIVE scan(_)
        scan(i) == IF i >= Len(s) THEN -1
                   ELSE IF s[i + 1] = c THEN i - pos
                   ELSE scan(i + 1)
    IN scan(pos)

\* bytes.HasPrefix
HasPrefix(s, p) == Len(s) >= Len(p) /\ SubSeq(s, 1, Len(p)) = p

\* bytes.HasSuffix
HasSuffix(s, p) == Len(s) >= Len(p) /\ SubSeq(s, Len(s) - Len(p) + 1, Len(s)) = p

\* strings.TrimPrefix
TrimPrefix(s, p) == IF HasPrefix(s, p) THEN From(s, Len(p)) ELSE s

\* bytes.TrimLeft(s, cutset)
TrimLeft(s, cutset) ==
    LET RECURSIVE first(_)
        first(i) == IF i > Len(s) THEN i
                    ELSE IF s[i] \in cutset THEN first(i + 1) ELSE i
    IN SubSeq(s, first(1), Len(s))

\* bytes.TrimRight(s, cutset)
TrimRight(s, cutset) ==
    LET RECURSIVE last(_)
        last(i) == IF i < 1 THEN i
                   ELSE IF s[i] \in cutset THEN last(i - 1) ELSE i
    IN SubSeq(s, 1, last(Len(s)))

\* bytes.Trim(s, cutset)
Trim(s, cutset) == TrimRight(TrimLeft(s, cutset), cutset)

\* strings.TrimSpace
TrimSpace(s) == Trim(s, {" ", "\t", "\n", "\r", "\f"})

\* the cutset "\n\r" used by the planner
NLCR == {"\n", "\r"}

UpperLetters == <<"A","B","C","D","E","F","G","H","I","J","K","L","M",
                  "N","O","P","Q","R","S","T","U","V","W","X","Y","Z">>
LowerLetters == <<"a","b","c","d","e","f","g","h","i","j","k","l","m",
                  "n","o","p","q","r","s","t","u","v","w","x","y","z">>

\* strings.ToLower, byte by byte
ToLowerByte(c) ==
    IF \E i \in 1..26 : UpperLetters[i] = c
    THEN LowerLetters[CHOOSE i \in 1..26 : UpperLetters[i] = c]
    ELSE c

ToLower(s) == [i \in 1..Len(s) |-> ToLowerByte(s[i])]

\* bytes.Contains
Contains(s, p) ==
    \E i \in 0..(Len(s) - Len(p)) : Slice(s, i, i + Len(p)) = p

\* offset just past the line that starts at pos (through its "\n", or
\* len(content) when the last line has no newline)
LineEnd(s, pos) ==
    LET at(nl) == IF nl >= 0 THEN pos + nl + 1 ELSE Len(s)
    IN at(IndexByteFrom(s, pos, "\n"))

\* ------------------------------------------------------------------------
\* Header Locator
\* ------------------------------------------------------------------------

isLineComment(line) ==
    LET test(s) ==
            \/ s = <<>>
            \/ HasPrefix(s, <<"/", "/">>) \/ HasPrefix(s, <<"#">>) \/ HasPrefix(s, <<";">>)
            \/ HasPrefix(s, <<"/", "*">>) \/ HasPrefix(s, <<"*">>) \/ HasPrefix(s, <<"*", "/">>)
    IN test(TrimSpace(line))

isGoPreambleDirective(line) ==
    LET goStyle(t) ==
            /\ t # <<>>
            /\ \/ HasPrefix(t, <<"g","o",":">>)
               \/ HasPrefix(t, <<"+","b","u","i","l","d">>)
               \/ HasPrefix(t, <<"n","o","l","i","n","t">>)
               \/ HasPrefix(t, <<"l","i","n","t",":">>)
        test(s) ==
            IF ~HasPrefix(s, <<"/", "/">>)
            THEN /\ HasPrefix(s, <<"#">>)
                 /\ HasPrefix(ToLower(TrimSpace(TrimPrefix(s, <<"#">>))),
                              <<"s","h","e","l","l","c","h","e","c","k">>)
            ELSE goStyle(TrimSpace(TrimPrefix(s, <<"/", "/">>)))
    IN test(TrimSpace(line))

findShebangEnd(content) ==
    LET at(nl) == IF nl >= 0 THEN nl + 1 ELSE Len(content)
    IN IF HasPrefix(content, <<"#", "!">>)
       THEN at(IndexByteFrom(content, 0, "\n"))
       ELSE 0

RECURSIVE skipBlankAndDirectives(_, _)
skipBlankAndDirectives(content, pos) ==
    LET step(end, line) ==
            IF TrimSpace(line) = <<>> \/ isGoPreambleDirective(line)
            THEN skipBlankAndDirectives(content, end)
            ELSE pos
        lineAt(end) == step(end, Slice(content, pos, end))
    IN IF pos >= Len(content) THEN pos ELSE lineAt(LineEnd(content, pos))

\* the collecting loop of detectHeaderBlock: offset where the block that
\* starts at pos stops
RECURSIVE headerBlockEnd(_, _)
headerBlockEnd(content, pos) ==
    LET step(end, line) ==
            IF TrimSpace(line) # <<>> /\ ~isLineComment(line) THEN pos
            ELSE IF isGoPreambleDirective(line) THEN pos
            ELSE headerBlockEnd(content, end)
        lineAt(end) == step(end, Slice(content, pos, end))
    IN IF pos >= Len(content) THEN pos ELSE lineAt(LineEnd(content, pos))

\* variant of detectHeaderBlock that does not step over the shebang line
detectHeaderBlockFromTop(content) ==
    LET block(pos, stop) ==
            IF stop = pos
            THEN [header |-> <<>>, start |-> 0, end |-> 0]
            ELSE [header |-> Slice(content, pos, stop), start |-> pos, end |-> stop]
        from(pos) == block(pos, headerBlockEnd(content, pos))
    IN from(skipBlankAndDirectives(content, 0))

\* returns [header, start, end]
detectHeaderBlock(content) ==
    LET block(pos, stop) ==
            IF stop = pos
            THEN [header |-> <<>>, start |-> 0, end |-> 0]
            ELSE [header |-> Slice(content, pos, stop), start |-> pos, end |-> stop]
        from(pos) == block(pos, headerBlockEnd(content, pos))
    IN from(skipBlankAndDirectives(content, findShebangEnd(content)))

\* ------------------------------------------------------------------------
\* Rewrite Planner
\* ------------------------------------------------------------------------

replaceHeader(content, start, end, header) ==
    Slice(content, 0, start) \o header \o <<"\n">> \o TrimLeft(From(content, end), NLCR)

insertHeader(content, header) ==
    LET pos == findShebangEnd(content)
    IN Slice(content, 0, pos) \o header \o <<"\n">> \o TrimLeft(From(content, pos), NLCR)

\* first scan of upsertHeaderBeforeDirectives: end of the leading run of
\* blank and directive lines of middle
RECURSIVE leadingDirectivesEnd(_, _)
leadingDirectivesEnd(middle, dirStart) ==
    LET step(lineEnd, line) ==
            IF TrimSpace(line) = <<>> \/ isGoPreambleDirective(line)
            THEN leadingDirectivesEnd(middle, lineEnd)
            ELSE dirStart
        lineAt(lineEnd) == step(lineEnd, Slice(middle, dirStart, lineEnd))
    IN IF dirStart >= Len(middle) THEN dirStart ELSE lineAt(LineEnd(middle, dirStart))

\* the comment-prefix test of the first top-of-file comment scan
isTopComment(trimmed) ==
    \/ HasPrefix(trimmed, <<"/", "/">>) \/ HasPrefix(trimmed, <<"#">>)
    \/ HasPrefix(trimmed, <<"/", "*">>) \/ HasPrefix(trimmed, <<"*">>)

\* top-of-file comment scan before the existing header is removed
RECURSIVE topCommentsEnd(_, _)
topCommentsEnd(middle, commEnd) ==
    LET step(lineEnd, trimmed) ==
            IF trimmed = <<>> \/ isTopComment(trimmed)
            THEN topCommentsEnd(middle, lineEnd)
            ELSE commEnd
        lineAt(lineEnd) == step(lineEnd, TrimSpace(Slice(middle, commEnd, lineEnd)))
    IN IF commEnd >= Len(middle) THEN commEnd ELSE lineAt(LineEnd(middle, commEnd))

\* top-of-file comment scan after the existing header is removed
RECURSIVE topCommentsEndAfterRemoval(_, _)
topCommentsEndAfterRemoval(middle, commEnd) ==
    LET step(lineEnd, line) ==
            IF TrimSpace(line) = <<>> \/ isLineComment(line)
            THEN topCommentsEndAfterRemoval(middle, lineEnd)
            ELSE commEnd
        lineAt(lineEnd) == step(lineEnd, Slice(middle, commEnd, lineEnd))
    IN IF commEnd >= Len(middle) THEN commEnd ELSE lineAt(LineEnd(middle, commEnd))

\* the split of middle into directives, top-of-file comments and rest, with
\* the scan for top-of-file comments given by commScan:
\* [head, shebangEnd, directivesAndBlanks, topComments, rest, preservedHeader]
splitPieces(content, shebangEnd, commScan(_, _), preservedHeader) ==
    LET cut(middle, dirStart, commEnd) ==
            [head |-> Slice(content, 0, shebangEnd),
             shebangEnd |-> shebangEnd,
             directivesAndBlanks |-> Slice(middle, 0, dirStart),
             topComments |-> Slice(middle, dirStart, commEnd),
             rest |-> From(middle, commEnd),
             preservedHeader |-> preservedHeader]
        comments(middle, dirStart) == cut(middle, dirStart, commScan(middle, dirStart))
        directives(middle) == comments(middle, leadingDirectivesEnd(middle, 0))
    IN directives(From(content, shebangEnd))

\* the pieces upsertHeaderBeforeDirectives assembles: those of the content
\* itself, or, when a header is detected, those of the content without it
upsertPieces(content, preserveExisting) ==
    LET removed(det, content2) ==
            splitPieces(content2, findShebangEnd(content2), topCommentsEndAfterRemoval,
                        IF preserveExisting THEN det.header ELSE <<>>)
        pieces(det, shebangEnd) ==
            IF Len(det.header) > 0 /\ det.start >= shebangEnd
            THEN removed(det, Slice(content, 0, det.start) \o From(content, det.end))
            ELSE splitPieces(content, shebangEnd, topCommentsEnd, <<>>)
    IN pieces(detectHeaderBlock(content), findShebangEnd(content))

\* variant of trimmedBlock that omits every block
omittedBlock(b) == <<>>

\* a block trimmed of "\n\r" and followed by one blank line, omitted if empty
trimmedBlock(b) ==
    LET block(t) == IF Len(t) > 0 THEN t \o <<"\n", "\n">> ELSE <<>>
    IN block(Trim(b, NLCR))

\* variant of upsertHeaderBeforeDirectives that leaves the directive block
\* above the header
upsertHeaderAfterDirectives(content, header, preserveExisting) ==
    LET assemble(p) ==
            p.head
            \o (IF p.shebangEnd > 0 THEN <<"\n">> ELSE <<>>)
            \o trimmedBlock(p.directivesAndBlanks)
            \o header
            \o (IF ~HasSuffix(header, <<"\n">>) THEN <<"\n">> ELSE <<>>)
            \o <<"\n">>
            \o trimmedBlock(p.topComments)
            \o (IF Len(TrimSpace(p.preservedHeader)) > 0
                THEN Trim(p.preservedHeader, NLCR) \o <<"\n", "\n">> ELSE <<>>)
            \o p.rest
    IN assemble(upsertPieces(content, preserveExisting))

\* variant of upsertHeaderBeforeDirectives that drops the header it removes
upsertHeaderDroppingExisting(content, header, preserveExisting) ==
    LET assemble(p) ==
            p.head
            \o (IF p.shebangEnd > 0 THEN <<"\n">> ELSE <<>>)
            \o header
            \o (IF ~HasSuffix(header, <<"\n">>) THEN <<"\n">> ELSE <<>>)
            \o <<"\n">>
            \o trimmedBlock(p.directivesAndBlanks)
            \o trimmedBlock(p.topComments)
            \o p.rest
    IN assemble(upsertPieces(content, FALSE))

\* variant of upsertHeaderBeforeDirectives that puts the header at offset 0,
\* above a shebang
upsertHeaderAtTop(content, header, preserveExisting) ==
    header \o <<"\n">> \o content

upsertHeaderBeforeDirectives(content, header, preserveExisting) ==
    LET assemble(p) ==
            p.head
            \o (IF p.shebangEnd > 0 THEN <<"\n">> ELSE <<>>)
            \o header
            \o (IF ~HasSuffix(header, <<"\n">>) THEN <<"\n">> ELSE <<>>)
            \o <<"\n">>
            \o trimmedBlock(p.directivesAndBlanks)
            \o trimmedBlock(p.topComments)
            \o (IF Len(TrimSpace(p.preservedHeader)) > 0
                THEN Trim(p.preservedHeader, NLCR) \o <<"\n", "\n">> ELSE <<>>)
            \o p.rest
    IN assemble(upsertPieces(content, preserveExisting))

\* ------------------------------------------------------------------------
\* Header Matcher
\* ------------------------------------------------------------------------

Digits == {"0","1","2","3","4","5","6","7","8","9"}

Letters == {UpperLetters[i] : i \in 1..26} \cup {LowerLetters[i] : i \in 1..26}

HexDigits == Digits \cup {"a","b","c","d","e","f","A","B","C","D","E","F"}

\* \w of the regexp package
WordChars == Digits \cup Letters \cup {"_"}

\* byte at 0-based offset i, or "" outside the text
At(t, i) == IF i >= 0 /\ i < Len(t) THEN t[i + 1] ELSE ""

\* \b at offset i
WordBoundary(t, i) == (At(t, i - 1) \in WordChars) # (At(t, i) \in WordChars)

\* \d{n} at offset i
DigitsAt(t, i, n) == \A k \in 0..(n - 1) : At(t, i + k) \in Digits

\* length of the longest run of bytes of class cls starting at offset i
RunLen(t, i, cls) ==
    LET RECURSIVE run(_)
        run(k) == IF At(t, i + k) \in cls THEN run(k + 1) ELSE k
    IN run(0)

\* Each matcher returns the end offset of the match of its pattern that
\* starts at offset i, or -1 when the pattern does not match there.

\* \b\d{4}[-/]?\d{2}[-/]?\d{2}\b
matchDate(t, i) ==
    LET day(b) == IF DigitsAt(t, b, 2) /\ WordBoundary(t, b + 2) THEN b + 2 ELSE -1
        month(a) == IF ~DigitsAt(t, a, 2) THEN -1
                    ELSE day(IF At(t, a + 2) \in {"-", "/"} THEN a + 3 ELSE a + 2)
    IN IF ~(DigitsAt(t, i, 4) /\ WordBoundary(t, i)) THEN -1
       ELSE month(IF At(t, i + 4) \in {"-", "/"} THEN i + 5 ELSE i + 4)

\* \b\d{2}:\d{2}:\d{2}\b
matchTime(t, i) ==
    IF /\ DigitsAt(t, i, 2) /\ WordBoundary(t, i) /\ At(t, i + 2) = ":"
       /\ DigitsAt(t, i + 3, 2) /\ At(t, i + 5) = ":" /\ DigitsAt(t, i + 6, 2)
       /\ WordBoundary(t, i + 8)
    THEN i + 8 ELSE -1

EmailLocal == Letters \cup Digits \cup {".", "_", "%", "+", "-"}

EmailDomain == Letters \cup Digits \cup {".", "-"}

\* [A-Za-z0-9._%+-]+@[A-Za-z0-9.-]+\.[A-Za-z]{2,}
matchEmail(t, i) ==
    LET \* the greedy domain part ends before the last dot of its run that at
        \* least two letters follow
        tld(d0, dots) ==
            IF dots = {} THEN -1
            ELSE LET k == CHOOSE x \in dots : \A y \in dots : y <= x
                 IN d0 + k + 1 + RunLen(t, d0 + k + 1, Letters)
        domain(d0, n) ==
            tld(d0, {k \in 1..(n - 1) :
                        At(t, d0 + k) = "." /\ RunLen(t, d0 + k + 1, Letters) >= 2})
        local(l) ==
            IF l >= 1 /\ At(t, i + l) = "@"
            THEN domain(i + l + 1, RunLen(t, i + l + 1, EmailDomain))
            ELSE -1
    IN local(RunLen(t, i, EmailLocal))

\* \b[0-9a-fA-F]{7,40}\b
matchHash(t, i) ==
    LET run(r) == IF r >= 7 /\ r <= 40 /\ WordBoundary(t, i + r) THEN i + r ELSE -1
    IN IF At(t, i) \in HexDigits /\ WordBoundary(t, i)
       THEN run(RunLen(t, i, HexDigits)) ELSE -1

\* \b(19|20)\d{2}\b
matchYear(t, i) ==
    IF /\ At(t, i) \in {"1", "2"}
       /\ WordBoundary(t, i)
       /\ At(t, i + 1) = (IF At(t, i) = "1" THEN "9" ELSE "0")
       /\ DigitsAt(t, i + 2, 2)
       /\ WordBoundary(t, i + 4)
    THEN i + 4 ELSE -1

\* \s+
matchSpaces(t, i) ==
    LET run(r) == IF r >= 1 THEN i + r ELSE -1
    IN run(RunLen(t, i, {" ", "\t", "\n", "\r", "\f"}))

\* regexp.ReplaceAllString for a pattern given by its matcher: successive
\* non-overlapping leftmost matches are replaced by repl
ReplaceAllMatches(t, M(_, _), repl) ==
    LET RECURSIVE go(_, _)
        \* from: offset up to which the text is already copied
        step(i, from, e) == IF e > i THEN Slice(t, from, i) \o repl \o go(e, e)
                            ELSE go(i + 1, from)
        go(i, from) == IF i >= Len(t) THEN From(t, from) ELSE step(i, from, M(t, i))
    IN go(0, 0)

sanitize(s) ==
    LET dates(t) == ReplaceAllMatches(t, matchDate, <<"<","D","A","T","E",">">>)
        times(t) == ReplaceAllMatches(t, matchTime, <<"<","T","I","M","E",">">>)
        emails(t) == ReplaceAllMatches(t, matchEmail, <<"<","E","M","A","I","L",">">>)
        hashes(t) == ReplaceAllMatches(t, matchHash, <<"<","H","A","S","H",">">>)
        years(t) == ReplaceAllMatches(t, matchYear, <<"<","Y","E","A","R",">">>)
        spaces(t) == ReplaceAllMatches(t, matchSpaces, <<" ">>)
    IN TrimSpace(spaces(years(hashes(emails(times(dates(s)))))))

\* variant of headerSemanticallyMatches that accepts every pair of non-empty headers
headerAlwaysMatches(existing, expected) == Len(existing) # 0 /\ Len(expected) # 0

headerSemanticallyMatches(existing, expected) ==
    IF Len(existing) = 0 \/ Len(expected) = 0 THEN FALSE
    ELSE sanitize(existing) = sanitize(expected)

headersStructurallyEqual(a, b) == TrimRight(a, NLCR) = TrimRight(b, NLCR)

\* ------------------------------------------------------------------------
\* Template Renderer
\* ------------------------------------------------------------------------

\* strings.ReplaceAll(s, old, new) for a non-empty old
ReplaceAll(s, old, new) ==
    LET RECURSIVE go(_)
        go(i) == IF i >= Len(s) THEN <<>>
                 ELSE IF HasPrefix(From(s, i), old) THEN new \o go(i + Len(old))
                 ELSE <<s[i + 1]>> \o go(i + 1)
    IN go(0)

\* normalizeNewlines: CRLF -> LF
normalizeNewlines(b) == ReplaceAll(b, <<"\r", "\n">>, <<"\n">>)

VarAuthor == <<"%","a","u","t","h","o","r","%">>
VarCreationDate == <<"%","c","r","e","a","t","i","o","n","_","d","a","t","e","%">>
VarLastUpdateDate == <<"%","l","a","s","t","_","u","p","d","a","t","e","_","d","a","t","e","%">>

\* the body of the loop of renderTemplates for one rule's content, given the
\* values the Git provider returned
renderContent(content, gitAuthor, cr, lu) ==
    ReplaceAll(ReplaceAll(ReplaceAll(content, VarAuthor,
                                     IF gitAuthor = <<>>
                                     THEN <<"u","n","k","n","o","w","n">> ELSE gitAuthor),
                          VarCreationDate, cr),
               VarLastUpdateDate, lu)

\* ------------------------------------------------------------------------
\* Paths and the file tree
\* ------------------------------------------------------------------------
\* A path is the sequence of its components below "/"; every path handed to
\* the engine is absolute (the callers join relative paths with the working
\* directory) but need not be clean.

\* filepath.Clean for absolute paths: drops "." and resolves ".."
Clean(p) ==
    LET RECURSIVE go(_, _)
        go(i, acc) ==
            IF i > Len(p) THEN acc
            ELSE IF p[i] = "." THEN go(i + 1, acc)
            ELSE IF p[i] = ".."
                 THEN go(i + 1, IF Len(acc) > 0 THEN SubSeq(acc, 1, Len(acc) - 1) ELSE acc)
            ELSE go(i + 1, Append(acc, p[i]))
    IN go(1, <<>>)

\* filepath.Join(dir, name)
Join(dir, name) == Clean(Append(dir, name))

\* d.Name(): last component
BaseName(p) == LET c == Clean(p) IN IF Len(c) = 0 THEN "/" ELSE c[Len(c)]

Root == <<"r">>
DirD == <<"r", "d">>
DirVendor == <<"r", "vendor">>
FileF == <<"r", "f.go">>
FileG == <<"r", "d", "g.go">>
FileV == <<"r", "vendor", "v.go">>
Tmpl1 == <<"r", "t1">>
Tmpl2 == <<"r", "d", "t2">>
Missing == <<"r", "gone.go">>

FileIds == {FileF, FileG, FileV, Tmpl1, Tmpl2}

DirIds == {Root, DirD, DirVendor}

\* os.ReadDir order (sorted by name) of each directory
DirEntries(dir) ==
    IF dir = Root THEN <<"d", "f.go", "t1", "vendor">>
    ELSE IF dir = DirD THEN <<"g.go", "t2">>
    ELSE IF dir = DirVendor THEN <<"v.go">>
    ELSE <<>>

\* directory names Process does not descend into
SkipDirNames == {".git", "vendor", ".idea", ".vscode", "node_modules"}

\* ------------------------------------------------------------------------
\* Include / exclude patterns
\* ------------------------------------------------------------------------
\* A compiled *regexp.Regexp is represented by the set of relative paths of
\* the tree that it matches; a nil pattern is NilRegexp.

NilRegexp == [compiled |-> FALSE, lang |-> {}]

Regexp(lang) == [compiled |-> TRUE, lang |-> lang]

MatchString(rx, rel) == rel \in rx.lang

\* paths matched by `\.go$`, by `.` and by `^d/`
GoFiles == {<<"f.go">>, <<"d", "g.go">>, <<"vendor", "v.go">>}
AllFiles == GoFiles \cup {<<"t1">>, <<"d", "t2">>}
UnderD == {<<"d", "g.go">>, <<"d", "t2">>}

\* ------------------------------------------------------------------------
\* Engine state
\* ------------------------------------------------------------------------

VARIABLES
    files,        \* file tree: content of every regular file
    perm,         \* file tree: "rw", "ro" (WriteFile fails) or "none" (ReadFile fails too)
    opts,         \* Engine.opts: Root, Rules (with loaded Content), Force, RespectGit
    git,          \* the GitMetadata provider: author, created, updated, touched
    pc,           \* "idle", or "running" while a Process call is in its loop
    fix,          \* the fix argument of the current Process call
    queue,        \* entries still to visit by the current Process call
    results,      \* the results slice of the current Process call
    last,         \* history: the most recent processFile call of the current Process call
    fixedBefore,  \* history: files a fix-mode processFile has handled without error
    runs,         \* number of fix-mode Process calls started
    args,         \* the paths argument of the current Process call
    ctx,          \* the caller's context: [done, seen]
    cli,          \* the run of the command line: its stage, inputs and exit status
    call          \* a direct call of New or of an exported function: inputs and output

vars == <<files, perm, opts, git, pc, fix, queue, results, last, fixedBefore, runs,
          args, ctx, cli, call>>

\* the part of the state that only the command line and the direct calls change
aside == <<cli, call>>

ActionNone == "none"
ActionInsert == "insert"
ActionReplace == "replace"
ActionRemove == "remove"

\* FileResult; Err "" is nil, and Action "" is the zero value left by the
\* composite literals that set only Path and Err
FileResult(path, action, err, warning) ==
    [Path |-> path, Action |-> action, Err |-> err, Warning |-> warning]

ForcedWarning == "non-UTF8/binary file, forced to check"

\* utf8.Valid over the model's bytes: ASCII bytes, the two-byte sequence
\* 0xC3 0xA9, and the byte 0xFF that no encoding contains
Utf8Valid(content) ==
    LET RECURSIVE ok(_)
        ok(i) == IF i > Len(content) THEN TRUE
                 ELSE IF content[i] = "xFF" THEN FALSE
                 ELSE IF content[i] = "xA9" THEN FALSE
                 ELSE IF content[i] = "xC3"
                      THEN i + 1 <= Len(content) /\ content[i + 1] = "xA9" /\ ok(i + 2)
                 ELSE ok(i + 1)
    IN ok(1)

\* variant of isTemplatePath that compares the paths as given
isTemplatePathNoClean(o, path) ==
    \E i \in 1..Len(o.Rules) : path = o.Rules[i].TemplatePath

isTemplatePath(o, path) ==
    \E i \in 1..Len(o.Rules) : Clean(path) = Clean(o.Rules[i].TemplatePath)

\* filepath.Rel(Root, path) for a path below Root
relativePath(o, path) ==
    LET below(c) == SubSeq(c, Len(Clean(o.Root)) + 1, Len(c))
    IN below(Clean(path))

\* the include/exclude test shared by hasAnyTemplateForPath,
\* filterTemplatesForPath and findMatchingTemplateIndex
ruleAccepts(tr, rel) ==
    /\ ~(tr.Exclude.compiled /\ MatchString(tr.Exclude, rel))
    /\ ~(tr.Include.compiled /\ ~MatchString(tr.Include, rel))

hasAnyTemplateForPath(o, rel) ==
    \E i \in 1..Len(o.Rules) : ruleAccepts(o.Rules[i], rel)

\* variant of handleNonUTF8File in which Force lets the content through
handleNonUTF8FileForced(o, path, content) ==
    IF Utf8Valid(content) \/ o.Force THEN [ok |-> TRUE, fr |-> FileResult(<<>>, "", "", "")]
    ELSE [ok |-> FALSE, fr |-> FileResult(path, ActionNone, "", "")]

\* [ok, fr]: ok = TRUE when the content goes on to be checked
handleNonUTF8File(o, path, content) ==
    IF Utf8Valid(content) THEN [ok |-> TRUE, fr |-> FileResult(<<>>, "", "", "")]
    ELSE IF o.Force
         THEN [ok |-> FALSE, fr |-> FileResult(path, ActionNone, "", ForcedWarning)]
         ELSE [ok |-> FALSE, fr |-> FileResult(path, ActionNone, "", "")]

renderTemplates(o, g, path) ==
    [i \in 1..Len(o.Rules) |->
        [o.Rules[i] EXCEPT !.Content = renderContent(@, g.author, g.created, g.updated)]]

filterTemplatesForPath(rel, trules) ==
    SelectSeq(trules, LAMBDA tr : ruleAccepts(tr, rel))

\* variant of findMatchingTemplateIndex that returns the last matching rule
findLastMatchingTemplateIndex(rel, trules, currentHeader) ==
    LET latest(hits) == IF hits = {} THEN 0 ELSE CHOOSE i \in hits : \A j \in hits : i >= j
    IN latest({i \in 1..Len(trules) :
                /\ ruleAccepts(trules[i], rel)
                /\ headerSemanticallyMatches(currentHeader, trules[i].Content)})

\* index (from 1) of the first accepted rule whose rendered header
\* semantically matches, or 0 where the code returns -1
findMatchingTemplateIndex(rel, trules, currentHeader) ==
    LET first(hits) == IF hits = {} THEN 0 ELSE CHOOSE i \in hits : \A j \in hits : i <= j
    IN first({i \in 1..Len(trules) :
                 /\ ruleAccepts(trules[i], rel)
                 /\ headerSemanticallyMatches(currentHeader, trules[i].Content)})

\* variant of Touched that reports a file as touched when the lookup fails
TouchedOnError(g) == [touched |-> g.touched # "no", err |-> g.touched = "err"]

\* Git.Touched: (touched, err); an error comes with touched = false
Touched(g) == [touched |-> g.touched = "yes", err |-> g.touched = "err"]

\* variant of shouldSkipDueToGit that never skips
shouldSkipNever(o, g) == FALSE

shouldSkipDueToGit(o, g) ==
    IF ~o.RespectGit THEN FALSE ELSE ~Touched(g).touched

\* Outcome of a handler: the FileResult, and the bytes handed to
\* os.WriteFile (write = FALSE when WriteFile is not called)
Outcome(fr, write, bytes) == [fr |-> fr, write |-> write, bytes |-> bytes]

NoWrite(fr) == Outcome(fr, FALSE, <<>>)

\* os.WriteFile(path, nb) followed by the result the handlers build
writeOutcome(path, nb, writable, action) ==
    IF writable THEN Outcome(FileResult(path, action, "", ""), TRUE, nb)
    ELSE Outcome(FileResult(path, "", "write", ""), TRUE, nb)

\* variant of handleMatchedHeader without the byte and structural equality tests
handleMatchedHeaderNoEqualTest(o, g, path, fixMode, currentHeader, rendered, content, writable) ==
    IF ~fixMode THEN NoWrite(FileResult(path, ActionNone, "", ""))
    ELSE IF headerSemanticallyMatches(currentHeader, rendered.Content) /\ shouldSkipDueToGit(o, g)
         THEN NoWrite(FileResult(path, ActionNone, "", ""))
    ELSE writeOutcome(path, upsertHeaderBeforeDirectives(content, rendered.Content, TRUE),
                      writable, ActionReplace)

handleMatchedHeader(o, g, path, fixMode, currentHeader, rendered, content, writable) ==
    IF ~fixMode THEN NoWrite(FileResult(path, ActionNone, "", ""))
    ELSE IF currentHeader = rendered.Content THEN NoWrite(FileResult(path, ActionNone, "", ""))
    ELSE IF headersStructurallyEqual(currentHeader, rendered.Content)
         THEN NoWrite(FileResult(path, ActionNone, "", ""))
    ELSE IF headerSemanticallyMatches(currentHeader, rendered.Content) /\ shouldSkipDueToGit(o, g)
         THEN NoWrite(FileResult(path, ActionNone, "", ""))
    ELSE writeOutcome(path, upsertHeaderBeforeDirectives(content, rendered.Content, TRUE),
                      writable, ActionReplace)

\* variant of handleNoMatch that writes the header of the last rule
handleNoMatchLastRule(path, fixMode, currentHeader, content, trules, writable) ==
    IF Len(trules) = 0 THEN NoWrite(FileResult(path, ActionNone, "", ""))
    ELSE IF fixMode
         THEN writeOutcome(path, upsertHeaderBeforeDirectives(content,
                                     trules[Len(trules)].Content, TRUE),
                           writable,
                           IF Len(currentHeader) > 0 THEN ActionReplace ELSE ActionInsert)
    ELSE IF Len(currentHeader) > 0 THEN NoWrite(FileResult(path, ActionReplace, "", ""))
    ELSE NoWrite(FileResult(path, ActionInsert, "", ""))

\* variant of handleNoMatch that rewrites the file in check mode too
handleNoMatchAlwaysFix(path, fixMode, currentHeader, content, trules, writable) ==
    IF Len(trules) = 0 THEN NoWrite(FileResult(path, ActionNone, "", ""))
    ELSE writeOutcome(path, upsertHeaderBeforeDirectives(content, trules[1].Content, TRUE),
                      writable,
                      IF Len(currentHeader) > 0 THEN ActionReplace ELSE ActionInsert)

handleNoMatch(path, fixMode, currentHeader, content, trules, writable) ==
    IF Len(trules) = 0 THEN NoWrite(FileResult(path, ActionNone, "", ""))
    ELSE IF fixMode
         THEN writeOutcome(path, upsertHeaderBeforeDirectives(content, trules[1].Content, TRUE),
                           writable,
                           IF Len(currentHeader) > 0 THEN ActionReplace ELSE ActionInsert)
    ELSE IF Len(currentHeader) > 0 THEN NoWrite(FileResult(path, ActionReplace, "", ""))
    ELSE NoWrite(FileResult(path, ActionInsert, "", ""))

\* processFile, as a function of the engine options, the Git provider and
\* the file as found on disk; read = TRUE when os.ReadFile is called
processFile(o, g, path, fixMode, content, readable, writable) ==
    LET decide(trules, currentHeader, matchedIdx) ==
            IF matchedIdx >= 1
            THEN handleMatchedHeader(o, g, path, fixMode, currentHeader,
                                     trules[matchedIdx], content, writable)
            ELSE handleNoMatch(path, fixMode, currentHeader, content, trules, writable)
        match(rel, trules, currentHeader) ==
            IF Len(trules) = 0 THEN NoWrite(FileResult(path, ActionNone, "", ""))
            ELSE decide(trules, currentHeader,
                        findMatchingTemplateIndex(rel, trules, currentHeader))
        check(rel, nu) ==
            IF ~nu.ok THEN NoWrite(nu.fr)
            ELSE match(rel, filterTemplatesForPath(rel, renderTemplates(o, g, path)),
                       detectHeaderBlock(content).header)
        accepted(rel) ==
            IF ~hasAnyTemplateForPath(o, rel)
            THEN [read |-> FALSE, out |-> NoWrite(FileResult(path, ActionNone, "", ""))]
            ELSE IF ~readable
            THEN [read |-> TRUE, out |-> NoWrite(FileResult(path, "", "read", ""))]
            ELSE [read |-> TRUE, out |-> check(rel, handleNonUTF8File(o, path, content))]
    IN IF isTemplatePath(o, path)
       THEN [read |-> FALSE, out |-> NoWrite(FileResult(path, ActionNone, "", ""))]
       ELSE accepted(relativePath(o, path))

\* ------------------------------------------------------------------------
\* Inputs
\* ------------------------------------------------------------------------

\* lines the content of f.go is put together from
PieceShebang == <<"#","!","s","\n">>
PieceShebangNoNL == <<"#","!","s">>
PieceBlank == <<"\n">>
PieceDirective == <<"/","/","g","o",":","b","\n">>
PieceFresh == <<"/","/","2","0","2","4","-","0","2","-","0","2","\n">>
PieceStale == <<"/","/","2","0","2","0","-","0","1","-","0","1","\n">>
PieceLegacy == <<"/","/","o","\n">>
PieceCode == <<"p","\n">>
PieceSpaces == <<" ", "\n">>
PieceBinary == <<"xFF", "\n">>

\* lines that may follow the shebang line of f.go
BodyPieces == {PieceBlank, PieceSpaces, PieceDirective, PieceFresh, PieceStale,
               PieceLegacy, PieceCode}

\* lines of f.go when the file tree is walked
WalkPieces == {PieceStale, PieceLegacy, PieceCode, PieceBinary}

\* number of pieces of f.go when a single file is processed
MaxPieces == 2

\* number of pieces of f.go when the file tree is walked
MaxPiecesWalk == 1

\* number of fix-mode Process calls on the single file (calls in check mode
\* leave the file as it is, and are not counted)
MaxRuns == 2

\* all concatenations of at most k pieces
RECURSIVE Contents(_, _)
Contents(pieces, k) ==
    IF k = 0 THEN {<<>>}
    ELSE LET prev == Contents(pieces, k - 1)
         IN prev \cup {c \o q : c \in prev, q \in pieces}

\* contents of f.go of at most k lines: a body, a shebang line and a body, or
\* a shebang line that is not closed by a newline
FileContents(k) ==
    Contents(BodyPieces, k)
        \cup {PieceShebang \o b : b \in Contents(BodyPieces, k - 1)}
        \cup {PieceShebangNoNL}

TemplateLastUpdate == <<"/","/","%","l","a","s","t","_","u","p","d","a","t","e","_","d","a","t","e","%","\n">>
TemplateLastUpdateNoNL == <<"/","/","%","l","a","s","t","_","u","p","d","a","t","e","_","d","a","t","e","%">>
TemplateCreation == <<"/","/","%","c","r","e","a","t","i","o","n","_","d","a","t","e","%","\n">>

TemplatePool == {TemplateLastUpdate, TemplateLastUpdateNoNL}

GitCreated == <<"2","0","2","0","-","0","1","-","0","1">>
GitUpdated == <<"2","0","2","4","-","0","2","-","0","2">>

\* rule lists handed to New (TemplatePath, Include, Exclude): one rule;
\* two rules that both accept f.go; two rules of which only the second
\* accepts f.go
RulesSingle ==
    <<[TemplatePath |-> Tmpl1, Include |-> Regexp(GoFiles), Exclude |-> NilRegexp]>>

RulesOverlap ==
    <<[TemplatePath |-> Tmpl1, Include |-> Regexp(AllFiles), Exclude |-> Regexp(UnderD)],
      [TemplatePath |-> Tmpl2, Include |-> Regexp(GoFiles), Exclude |-> NilRegexp]>>

RulesExcluding ==
    <<[TemplatePath |-> Tmpl2, Include |-> NilRegexp, Exclude |-> Regexp({<<"f.go">>, <<"t1">>})],
      [TemplatePath |-> Tmpl1, Include |-> Regexp(GoFiles), Exclude |-> NilRegexp]>>

RuleConfigs == {RulesSingle, RulesOverlap, RulesExcluding}

\* path lists handed to Process when the tree is walked
ArgLists ==
    { <<Root>>, <<FileF>>, <<<<"r", ".", "t1">>>>, <<Missing, FileF>>,
      <<DirVendor, <<"r", "d", "..", "d", "t2">>>> }

\* New: the rules of the engine, each with its template loaded
loadRules(rules, fs) ==
    [i \in 1..Len(rules) |->
        [TemplatePath |-> rules[i].TemplatePath,
         Include |-> rules[i].Include,
         Exclude |-> rules[i].Exclude,
         Content |-> normalizeNewlines(fs[rules[i].TemplatePath])]]

\* ------------------------------------------------------------------------
\* Initial states: the file tree, and the engine New has constructed
\* ------------------------------------------------------------------------

\* the caller's context before cancellation; seen is the number of results
\* Process had collected when the context was cancelled
Live == [done |-> FALSE, seen |-> 0]

\* no run of the command line: the engine is used as a library
NoCli == [stage |-> "none"]

\* no direct call
NoDirectCall == [op |-> "none"]

NoCall ==
    [valid |-> FALSE, path |-> <<>>, id |-> <<>>, walked |-> FALSE, fix |-> FALSE,
     again |-> FALSE, before |-> <<>>, read |-> FALSE, write |-> FALSE,
     fr |-> FileResult(<<>>, "", "", "")]

InitWith(fContents, templates, configs, gPerms, forces, gitModes) ==
    /\ \E c \in fContents, t \in templates :
          files = [id \in FileIds |->
                      IF id = FileF THEN c
                      ELSE IF id = Tmpl1 THEN t
                      ELSE IF id = Tmpl2 THEN TemplateCreation
                      ELSE PieceCode]
    /\ \E gp \in gPerms : perm = [id \in FileIds |-> IF id = FileG THEN gp ELSE "rw"]
    /\ \E rc \in configs, f \in forces, gm \in gitModes :
          /\ opts = [Root |-> Root, Rules |-> loadRules(rc, files), Force |-> f,
                     RespectGit |-> gm[1]]
          /\ git = [author |-> <<>>, created |-> GitCreated, updated |-> GitUpdated,
                    touched |-> gm[2]]
    /\ pc = "idle"
    /\ fix = FALSE
    /\ queue = <<>>
    /\ results = <<>>
    /\ last = NoCall
    /\ fixedBefore = {}
    /\ runs = 0
    /\ args = <<>>
    /\ ctx = Live
    /\ cli = NoCli
    /\ call = NoDirectCall

\* the tree walked by one Process call, with every permission of d/g.go, Force
\* on and off, and every answer of Touched with RespectGit on and off
Init ==
    InitWith(Contents(WalkPieces, MaxPiecesWalk), {TemplateLastUpdate}, RuleConfigs,
             {"rw", "ro", "none"}, BOOLEAN, BOOLEAN \X {"yes", "no", "err"})

\* the single file f.go, with RespectGit on as the command line sets it
InitFile ==
    InitWith(FileContents(MaxPieces), TemplatePool, {RulesSingle, RulesOverlap},
             {"rw"}, {FALSE}, {<<TRUE, "yes">>, <<TRUE, "no">>})

\* ------------------------------------------------------------------------
\* Engine.Process
\* ------------------------------------------------------------------------

\* entry of the work list: a path argument, or a path reached by WalkDir
Entry(path, walked) == [path |-> path, walked |-> walked]

\* Process is called with paths and fix
Start(paths, fx) ==
    /\ pc = "idle"
    /\ pc' = "running"
    /\ fix' = fx
    /\ queue' = [i \in 1..Len(paths) |-> Entry(paths[i], FALSE)]
    /\ results' = <<>>
    /\ last' = NoCall
    /\ runs' = IF fx THEN runs + 1 ELSE runs
    /\ args' = paths
    /\ UNCHANGED <<files, perm, opts, git, fixedBefore, ctx, aside>>

\* variant of VisitStatError in which the failure ends the batch
VisitStatErrorAbort ==
    /\ pc = "running" /\ queue # <<>>
    /\ Clean(Head(queue).path) \notin FileIds \cup DirIds
    /\ results' = Append(results, FileResult(Head(queue).path, "", "stat", ""))
    /\ queue' = <<>>
    /\ UNCHANGED <<files, perm, opts, git, pc, fix, last, fixedBefore, runs, args, ctx, aside>>

\* os.Stat fails on a path argument
VisitStatError ==
    /\ pc = "running" /\ queue # <<>>
    /\ Clean(Head(queue).path) \notin FileIds \cup DirIds
    /\ results' = Append(results, FileResult(Head(queue).path, "", "stat", ""))
    /\ queue' = Tail(queue)
    /\ UNCHANGED <<files, perm, opts, git, pc, fix, last, fixedBefore, runs, args, ctx, aside>>

\* the WalkDir callback on a directory of the skip list
VisitSkipDir ==
    /\ pc = "running" /\ queue # <<>>
    /\ Clean(Head(queue).path) \in DirIds
    /\ BaseName(Head(queue).path) \in SkipDirNames
    /\ queue' = Tail(queue)
    /\ UNCHANGED <<files, perm, opts, git, pc, fix, results, last, fixedBefore, runs, args,
                   ctx, aside>>

\* the WalkDir callback on any other directory: its entries are visited next
VisitDir ==
    /\ pc = "running" /\ queue # <<>>
    /\ Clean(Head(queue).path) \in DirIds
    /\ BaseName(Head(queue).path) \notin SkipDirNames
    /\ LET names == DirEntries(Clean(Head(queue).path))
       IN queue' = [i \in 1..Len(names) |-> Entry(Join(Head(queue).path, names[i]), TRUE)]
                   \o Tail(queue)
    /\ UNCHANGED <<files, perm, opts, git, pc, fix, results, last, fixedBefore, runs, args,
                   ctx, aside>>

\* processFile on a regular file (a path argument or a walked entry)
VisitFile ==
    /\ pc = "running" /\ queue # <<>>
    /\ Clean(Head(queue).path) \in FileIds
    /\ \E path \in {Head(queue).path} : \E id \in {Clean(path)} :
       \E r \in {processFile(opts, git, path, fix, files[id],
                              perm[id] # "none", perm[id] = "rw")} :
          /\ results' = Append(results, r.out.fr)
          /\ files' = IF r.out.write /\ perm[id] = "rw"
                      THEN [files EXCEPT ![id] = r.out.bytes] ELSE files
          /\ last' = [valid |-> TRUE, path |-> path, id |-> id,
                       walked |-> Head(queue).walked, fix |-> fix,
                       again |-> id \in fixedBefore, before |-> files[id],
                       read |-> r.read, write |-> r.out.write, fr |-> r.out.fr]
          /\ fixedBefore' = IF fix /\ r.out.fr.Err = "" THEN fixedBefore \cup {id}
                            ELSE fixedBefore
    /\ queue' = Tail(queue)
    /\ UNCHANGED <<perm, opts, git, pc, fix, runs, args, ctx, aside>>

\* Process returns results to its caller
Finish ==
    /\ pc = "running" /\ queue = <<>>
    /\ pc' = "idle"
    /\ fix' = FALSE
    /\ results' = <<>>
    /\ last' = NoCall
    /\ args' = <<>>
    /\ UNCHANGED <<files, perm, opts, git, queue, fixedBefore, runs, ctx, aside>>

\* the error Process returns with its results
ProcessError(c) == "nil"

\* the caller cancels the context while Process runs; a git command started
\* with the cancelled context fails, unless Git is disabled
Cancel ==
    /\ pc = "running" /\ ~ctx.done
    /\ ctx' = [done |-> TRUE, seen |-> Len(results)]
    /\ \E t \in {git.touched, "err"} : git' = [git EXCEPT !.touched = t]
    /\ UNCHANGED <<files, perm, opts, pc, fix, queue, results, last, fixedBefore, runs,
                   args, aside>>

\* Process over the tree, as a run of the command line calls it, until a call
\* in fix mode has rewritten the tree
StartWalk == runs = 0 /\ \E paths \in ArgLists, fx \in BOOLEAN : Start(paths, fx)

\* successive Process calls on f.go
StartFile == \E fx \in BOOLEAN : (fx => runs < MaxRuns) /\ Start(<<FileF>>, fx)

Next == StartWalk \/ VisitStatError \/ VisitSkipDir \/ VisitDir \/ VisitFile \/ Finish

Spec == Init /\ [][Next]_vars

NextFile == StartFile \/ VisitFile \/ Finish

SpecFile == InitFile /\ [][NextFile]_vars

\* one Process call over the tree whose context may be cancelled
InitCancel ==
    InitWith(Contents(WalkPieces, MaxPiecesWalk), {TemplateLastUpdate}, {RulesSingle},
             {"rw"}, {FALSE}, {<<TRUE, "yes">>})

NextCancel ==
    \/ ~ctx.done /\ StartWalk
    \/ Cancel
    \/ VisitStatError \/ VisitSkipDir \/ VisitDir \/ VisitFile \/ Finish

SpecCancel == InitCancel /\ [][NextCancel]_vars

\* values of Git.Author (`%an <%ae>`); <<>> when Git knows no author
AuthorPool ==
    {<<>>,
     <<"A","l"," ","<","a","@","b",".","c","o",">">>,
     <<"B","o"," ","<","a","@","b",".","c","o",">">>,
     <<"A","l"," ","<","c","@","d",".","i","o",">">>}

TemplateAuthor == <<"/","/","%","a","u","t","h","o","r","%","\n">>

\* f.go carries the header rendered for one author, Git reports another
InitAuthor ==
    /\ \E a \in AuthorPool, b \in {<<>>, PieceCode, PieceBlank \o PieceCode} :
          files = [id \in FileIds |->
                      IF id = FileF
                      THEN renderContent(TemplateAuthor, a, GitCreated, GitUpdated) \o b
                      ELSE IF id = Tmpl1 THEN TemplateAuthor
                      ELSE IF id = Tmpl2 THEN TemplateCreation
                      ELSE PieceCode]
    /\ perm = [id \in FileIds |-> "rw"]
    /\ opts = [Root |-> Root, Rules |-> loadRules(RulesSingle, files), Force |-> FALSE,
               RespectGit |-> TRUE]
    /\ \E a \in AuthorPool, t \in {"yes", "no"} :
          git = [author |-> a, created |-> GitCreated, updated |-> GitUpdated,
                 touched |-> t]
    /\ pc = "idle"
    /\ fix = FALSE
    /\ queue = <<>>
    /\ results = <<>>
    /\ last = NoCall
    /\ fixedBefore = {}
    /\ runs = 0
    /\ args = <<>>
    /\ ctx = Live
    /\ cli = NoCli
    /\ call = NoDirectCall

SpecAuthor == InitAuthor /\ [][NextFile]_vars

\* ------------------------------------------------------------------------
\* New
\* ------------------------------------------------------------------------

\* a template path that strings.TrimSpace leaves empty
BlankPath == <<" ">>

IsBlankPath(p) == p \in {<<"">>, BlankPath}

\* os.ReadFile succeeds on path
Readable(path, pm) == Clean(path) \in FileIds /\ pm[Clean(path)] # "none"

\* no engine: New returned nil
NoEngine == [Root |-> <<>>, Rules |-> <<>>, Force |-> FALSE, RespectGit |-> FALSE]

\* variant of New that leaves out the rules whose template cannot be read
NewSkipUnreadable(o, fs, pm) ==
    [err |-> FALSE,
     engine |-> [o EXCEPT !.Rules =
                    loadRules(SelectSeq(o.Rules, LAMBDA tr : ~IsBlankPath(tr.TemplatePath)
                                                    /\ Readable(tr.TemplatePath, pm)), fs)]]

\* New(opts): [err, engine]
New(o, fs, pm) ==
    LET load(kept) ==
            IF \E i \in 1..Len(kept) : ~Readable(kept[i].TemplatePath, pm)
            THEN [err |-> TRUE, engine |-> NoEngine]
            ELSE [err |-> FALSE, engine |-> [o EXCEPT !.Rules = loadRules(kept, fs)]]
    IN load(SelectSeq(o.Rules, LAMBDA tr : ~IsBlankPath(tr.TemplatePath)))

\* number of rules handed to New
MaxRules == 2

TemplateCRLF == <<"/","/","%","l","a","s","t","_","u","p","d","a","t","e","_","d","a","t","e","%","\r","\n">>

\* rules handed to New: two with a template of the tree, one with a blank
\* path, one whose template does not exist
RulePool ==
    {[TemplatePath |-> tp, Include |-> Regexp(GoFiles), Exclude |-> NilRegexp] :
        tp \in {Tmpl1, Tmpl2, BlankPath, Missing}}

\* all rule lists of at most k rules
RECURSIVE RuleLists(_)
RuleLists(k) ==
    IF k = 0 THEN {<<>>}
    ELSE LET prev == RuleLists(k - 1)
         IN prev \cup {Append(l, r) : l \in prev, r \in RulePool}

\* the caller is about to call New
InitNew ==
    /\ \E t \in {TemplateLastUpdate, TemplateCRLF} :
          files = [id \in FileIds |->
                      IF id = Tmpl1 THEN t
                      ELSE IF id = Tmpl2 THEN TemplateCreation
                      ELSE PieceCode]
    /\ \E p1 \in {"rw", "none"}, p2 \in {"rw", "none"} :
          perm = [id \in FileIds |->
                     IF id = Tmpl1 THEN p1 ELSE IF id = Tmpl2 THEN p2 ELSE "rw"]
    /\ \E rules \in RuleLists(MaxRules), f \in BOOLEAN :
          call = [op |-> "New", done |-> FALSE, err |-> FALSE,
                  in |-> [Root |-> Root, Rules |-> rules, Force |-> f, RespectGit |-> TRUE]]
    /\ opts = NoEngine
    /\ git = [author |-> <<>>, created |-> GitCreated, updated |-> GitUpdated,
              touched |-> "yes"]
    /\ pc = "new"
    /\ fix = FALSE
    /\ queue = <<>>
    /\ results = <<>>
    /\ last = NoCall
    /\ fixedBefore = {}
    /\ runs = 0
    /\ args = <<>>
    /\ ctx = Live
    /\ cli = NoCli

\* engine.New(opts)
NewEngine ==
    /\ pc = "new" /\ call.op = "New" /\ ~call.done
    /\ \E r \in {New(call.in, files, perm)} :
          /\ opts' = r.engine
          /\ pc' = IF r.err THEN "failed" ELSE "idle"
          /\ call' = [call EXCEPT !.done = TRUE, !.err = r.err]
    /\ UNCHANGED <<files, perm, git, fix, queue, results, last, fixedBefore, runs, args,
                   ctx, cli>>

SpecNew == InitNew /\ [][NewEngine]_vars

\* ------------------------------------------------------------------------
\* Direct calls of the exported functions
\* ------------------------------------------------------------------------

\* length of the byte sequences handed to NormalizeNewlines
MaxBytes == 3

\* the tokens of a header line, by the kind of variable they stand for
TokenPool ==
    {[kind |-> "none", text |-> <<>>],
     [kind |-> "date", text |-> <<"2","0","2","4","-","0","7","-","3","1">>],
     [kind |-> "date", text |-> <<"2","0","2","3","/","0","1","/","0","2">>],
     [kind |-> "date", text |-> <<"3","1","-","0","7","-","2","0","2","4">>],
     [kind |-> "date", text |-> <<"0","1","-","0","2","-","2","0","2","3">>],
     [kind |-> "email", text |-> <<"a","@","b",".","c","o">>],
     [kind |-> "email", text |-> <<"c","@","d",".","i","o">>],
     [kind |-> "hash", text |-> <<"a","b","c","d","e","f","1">>],
     [kind |-> "hash", text |-> <<"2","0","2","4","0","7","3","1">>],
     [kind |-> "year", text |-> <<"1","9","9","9">>],
     [kind |-> "year", text |-> <<"2","0","2","4">>]}

\* header lines `//<word><whitespace><token>`
HeaderParts ==
    [lit : {<<"x">>, <<"y">>, <<"X">>}, ws : {<<" ">>, <<" ", " ">>}, tok : TokenPool]

HeaderOf(h) == <<"/", "/">> \o h.lit \o h.ws \o h.tok.text \o <<"\n">>

\* a caller is about to call NormalizeNewlines or HeaderSemanticallyMatches
InitCalls ==
    /\ files = [id \in FileIds |-> PieceCode]
    /\ perm = [id \in FileIds |-> "rw"]
    /\ opts = NoEngine
    /\ git = [author |-> <<>>, created |-> GitCreated, updated |-> GitUpdated,
              touched |-> "yes"]
    /\ pc = "idle"
    /\ fix = FALSE
    /\ queue = <<>>
    /\ results = <<>>
    /\ last = NoCall
    /\ fixedBefore = {}
    /\ runs = 0
    /\ args = <<>>
    /\ ctx = Live
    /\ cli = NoCli
    /\ \/ \E b \in Contents({<<"\r">>, <<"\n">>, <<"a">>}, MaxBytes) :
             call = [op |-> "NormalizeNewlines", in |-> b, n |-> 0, out |-> <<b>>]
       \/ \E a \in HeaderParts, b \in HeaderParts :
             call = [op |-> "HeaderSemanticallyMatches", a |-> a, b |-> b,
                     done |-> FALSE, out |-> FALSE]
       \/ \E c \in FileContents(MaxPieces) :
             call = [op |-> "DetectHeaderBlock", in |-> c, done |-> FALSE,
                     out |-> [header |-> <<>>, start |-> 0, end |-> 0]]
       \/ \E c \in FileContents(MaxPieces), t \in TemplatePool :
             call = [op |-> "InsertHeader", in |-> c,
                     header |-> renderContent(t, <<>>, GitCreated, GitUpdated),
                     done |-> FALSE, out |-> <<>>]

\* NormalizeNewlines(b), and NormalizeNewlines of its output; out holds the
\* input followed by the successive outputs
CallNormalizeNewlines ==
    /\ call.op = "NormalizeNewlines" /\ call.n < 2
    /\ call' = [call EXCEPT !.n = @ + 1,
                            !.out = Append(@, normalizeNewlines(@[Len(@)]))]
    /\ UNCHANGED <<files, perm, opts, git, pc, fix, queue, results, last, fixedBefore, runs,
                   args, ctx, cli>>

\* HeaderSemanticallyMatches(a, b)
CallHeaderSemanticallyMatches ==
    /\ call.op = "HeaderSemanticallyMatches" /\ ~call.done
    /\ call' = [call EXCEPT !.done = TRUE,
                            !.out = headerSemanticallyMatches(HeaderOf(call.a),
                                                              HeaderOf(call.b))]
    /\ UNCHANGED <<files, perm, opts, git, pc, fix, queue, results, last, fixedBefore, runs,
                   args, ctx, cli>>

\* DetectHeaderBlock(content)
CallDetectHeaderBlock ==
    /\ call.op = "DetectHeaderBlock" /\ ~call.done
    /\ call' = [call EXCEPT !.done = TRUE, !.out = detectHeaderBlock(call.in)]
    /\ UNCHANGED <<files, perm, opts, git, pc, fix, queue, results, last, fixedBefore, runs,
                   args, ctx, cli>>

\* InsertHeader(content, header)
CallInsertHeader ==
    /\ call.op = "InsertHeader" /\ ~call.done
    /\ call' = [call EXCEPT !.done = TRUE, !.out = insertHeader(call.in, call.header)]
    /\ UNCHANGED <<files, perm, opts, git, pc, fix, queue, results, last, fixedBefore, runs,
                   args, ctx, cli>>

NextCalls ==
    CallNormalizeNewlines \/ CallHeaderSemanticallyMatches \/ CallDetectHeaderBlock
        \/ CallInsertHeader

SpecCalls == InitCalls /\ [][NextCalls]_vars

\* ------------------------------------------------------------------------
\* The command line (cmd/headercheck)
\* ------------------------------------------------------------------------
\* A pattern is kept as the text given on the command line or in the
\* configuration file: "" (none), "go" for `\.go$`, "all" for `.`, "d" for
\* `^d/`, "(" for a text regexp.Compile rejects.

ExitOk == 0
ExitIssues == 1
ExitFatal == 1
ExitCancelled == 2

DefaultIncludeRegex == "default"

\* regexp.Compile
Compile(src) ==
    IF src = "(" THEN [ok |-> FALSE, rx |-> NilRegexp]
    ELSE [ok |-> TRUE,
          rx |-> Regexp(CASE src = "all" -> AllFiles
                          [] src = "d" -> UnderD
                          [] OTHER -> GoFiles)]

TemplateDef(path, inc, exc) == [Path |-> path, Include |-> inc, Exclude |-> exc]

\* config.Load("", root) on the parsed configuration file yaml
Load(yaml) ==
    LET templates == IF yaml.found /\ yaml.templates # <<>> THEN yaml.templates
                     ELSE <<TemplateDef(<<".header.txt">>, "", "")>>
        inc == IF yaml.found THEN yaml.include ELSE ""
        exc == IF yaml.found THEN yaml.exclude ELSE ""
        norm == [i \in 1..Len(templates) |->
                    TemplateDef(Clean(Root \o templates[i].Path),
                                IF templates[i].Include = "" THEN inc
                                ELSE templates[i].Include,
                                IF templates[i].Exclude = "" THEN exc
                                ELSE templates[i].Exclude)]
    IN SelectSeq(norm, LAMBDA t : ~IsBlankPath(t.Path))

applyTemplateFlags(cfg, templates, includeRe, excludeRe) ==
    IF Len(templates) = 0 THEN cfg
    ELSE cfg \o [i \in 1..Len(templates) |->
                    TemplateDef(Clean(Root \o templates[i]), includeRe, excludeRe)]

\* compileEngineRules: [ok, rules]; log.Fatalf on a pattern that does not compile
compileEngineRules(cfg) ==
    LET inc(t) == Compile(IF t.Include = "" THEN DefaultIncludeRegex ELSE t.Include)
        exc(t) == IF t.Exclude = "" THEN [ok |-> TRUE, rx |-> NilRegexp]
                  ELSE Compile(t.Exclude)
    IN [ok |-> \A i \in 1..Len(cfg) : inc(cfg[i]).ok /\ exc(cfg[i]).ok,
        rules |-> [i \in 1..Len(cfg) |->
                      [TemplatePath |-> cfg[i].Path, Include |-> inc(cfg[i]).rx,
                       Exclude |-> exc(cfg[i]).rx]]]

collectPaths(a) ==
    IF Len(a) = 0 THEN <<Root>> ELSE [i \in 1..Len(a) |-> Clean(Root \o a[i])]

\* handleResults: the exit status of the run
handleResults(rs, fx) ==
    LET hadIssues == \E i \in 1..Len(rs) :
                        \/ rs[i].Err # ""
                        \/ rs[i].Action # ActionNone /\ ~fx
    IN IF hadIssues /\ ~fx THEN ExitIssues ELSE ExitOk

\* parsed configuration files: none; one template without patterns; two
\* templates and a global include; a template that does not exist
YamlPool ==
    {[found |-> FALSE],
     [found |-> TRUE, templates |-> <<TemplateDef(<<"t1">>, "", "")>>,
      include |-> "", exclude |-> ""],
     [found |-> TRUE,
      templates |-> <<TemplateDef(<<"t1">>, "", ""), TemplateDef(<<"d", "t2">>, "go", "d")>>,
      include |-> "all", exclude |-> ""],
     [found |-> TRUE, templates |-> <<TemplateDef(<<"gone.go">>, "", "")>>,
      include |-> "", exclude |-> ""]}

\* main has parsed its flags
InitCli ==
    /\ \E c \in {PieceCode, PieceFresh} :
          files = [id \in FileIds |->
                      IF id = FileF THEN c
                      ELSE IF id = Tmpl1 THEN TemplateLastUpdate
                      ELSE IF id = Tmpl2 THEN TemplateCreation
                      ELSE PieceCode]
    /\ perm = [id \in FileIds |-> "rw"]
    /\ \E y \in YamlPool, fx \in BOOLEAN, ts \in {<<>>, <<<<"t1">>>>},
          inc \in {"", "all", "("}, exc \in {"", "d"},
          a \in {<<>>, <<<<"f.go">>>>, <<<<"gone.go">>, <<"vendor">>>>} :
          cli = [stage |-> "start", yaml |-> y, fix |-> fx, templates |-> ts,
                 include |-> inc, exclude |-> exc, paths |-> a,
                 fatal |-> FALSE, exit |-> ExitOk]
    /\ opts = NoEngine
    /\ git = [author |-> <<>>, created |-> GitCreated, updated |-> GitUpdated,
              touched |-> "yes"]
    /\ pc = "new"
    /\ fix = FALSE
    /\ queue = <<>>
    /\ results = <<>>
    /\ last = NoCall
    /\ fixedBefore = {}
    /\ runs = 0
    /\ args = <<>>
    /\ ctx = Live
    /\ call = NoDirectCall

\* main up to mustNewEngine: the engine, or log.Fatalf
CliSetup ==
    /\ cli.stage = "start"
    /\ \E rules \in {compileEngineRules(applyTemplateFlags(Load(cli.yaml), cli.templates,
                                                         cli.include, cli.exclude))} :
       \E r \in {New([Root |-> Root, Rules |-> rules.rules, Force |-> FALSE,
                       RespectGit |-> TRUE], files, perm)} :
          IF rules.ok /\ ~r.err
          THEN /\ opts' = r.engine
               /\ pc' = "idle"
               /\ cli' = [cli EXCEPT !.stage = "engine"]
          ELSE /\ opts' = NoEngine
               /\ pc' = "failed"
               /\ cli' = [cli EXCEPT !.stage = "exited", !.fatal = TRUE, !.exit = ExitFatal]
    /\ UNCHANGED <<files, perm, git, fix, queue, results, last, fixedBefore, runs, args,
                   ctx, call>>

\* runEngine: Process(ctx, paths, fix)
CliRun == cli.stage = "engine" /\ Start(collectPaths(cli.paths), cli.fix)

\* Process has returned; main exits through handleResults, os.Exit(2) or log.Fatalf
CliHandleResults ==
    /\ cli.stage = "engine" /\ pc = "running" /\ queue = <<>>
    /\ pc' = "idle"
    /\ \E err \in {ProcessError(ctx)} :
          cli' = [cli EXCEPT !.stage = "exited",
                             !.fatal = err # "nil",
                             !.exit = IF err = "canceled" THEN ExitCancelled
                                      ELSE IF err # "nil" THEN ExitFatal
                                      ELSE handleResults(results, fix)]
    /\ UNCHANGED <<files, perm, opts, git, fix, queue, results, last, fixedBefore, runs,
                   args, ctx, call>>

NextCli ==
    CliSetup \/ CliRun \/ VisitStatError \/ VisitSkipDir \/ VisitDir \/ VisitFile
        \/ CliHandleResults

SpecCli == InitCli /\ [][NextCli]_vars

\* ------------------------------------------------------------------------
\* Properties
\* ------------------------------------------------------------------------
\* The properties speak about the processFile call recorded in last: the
\* content before it is last.before, the content after it files[last.id].

\* the detected header of the content the call found
CallHeader == detectHeaderBlock(last.before).header

\* the rendered rules that accept the path of the call, in rule order
CallRules ==
    filterTemplatesForPath(relativePath(opts, last.path), renderTemplates(opts, git, last.path))

NoRule == [found |-> FALSE, Content |-> <<>>]

\* the first rule of rules, in order, whose rendered header semantically
\* matches hdr (found = FALSE when there is none)
FirstMatchingRule(rules, hdr) ==
    LET pick(m) ==
            IF m = {} THEN NoRule
            ELSE [found |-> TRUE,
                  Content |-> rules[CHOOSE i \in m : \A j \in m : i <= j].Content]
    IN pick({i \in 1..Len(rules) : headerSemanticallyMatches(hdr, rules[i].Content)})

\* the rule the detected header of the call semantically matches
MatchedRule == FirstMatchingRule(CallRules, CallHeader)

\* the call read the file and went on to detect and match its header
Analysed ==
    /\ last.valid /\ last.read
    /\ perm[last.id] # "none"
    /\ Utf8Valid(last.before)

\* a fix-mode call that analysed the file and met no I/O failure
FixCall == Analysed /\ last.fix /\ last.fr.Err = ""

\* the call rewrote the file
Rewrote == last.fr.Action \in {ActionInsert, ActionReplace}

\* the text of the first line of c, without its newline
FirstLine(c) ==
    LET at(nl) == IF nl >= 0 THEN Slice(c, 0, nl) ELSE c
    IN at(IndexByteFrom(c, 0, "\n"))

\* the lines of c, each without its newline
RECURSIVE Lines(_)
Lines(c) ==
    IF Len(c) = 0 THEN <<>>
    ELSE <<FirstLine(c)>> \o Lines(From(c, LineEnd(c, 0)))

\* the non-blank lines of c
NonBlankLines(c) == SelectSeq(Lines(c), LAMBDA l : TrimSpace(l) # <<>>)

\* number of offsets at which p occurs in c
Count(c, p) == Cardinality({i \in 0..(Len(c) - Len(p)) : Slice(c, i, i + Len(p)) = p})

IsPrefixSeq(a, b) == Len(a) <= Len(b) /\ SubSeq(b, 1, Len(a)) = a

\* the directive lines of c that precede the header position: the non-blank
\* lines between the shebang line and the offset detection starts from
LeadingDirectives(c) ==
    NonBlankLines(Slice(c, findShebangEnd(c), skipBlankAndDirectives(c, findShebangEnd(c))))

\* h as the planner writes it: closed by a newline
Terminated(h) == IF HasSuffix(h, <<"\n">>) THEN h ELSE h \o <<"\n">>

\* C1: fix mode is idempotent: a fix-mode call on a file that an earlier
\* fix-mode call has already handled, with the same rules and Git values,
\* leaves the bytes as they are and reports none.
C1_Idempotent ==
    (FixCall /\ last.again) =>
        (files[last.id] = last.before /\ last.fr.Action = ActionNone)

\* C2: when the content begins with #! and fix mode reports insert or
\* replace, the written file begins with the original shebang line, unchanged.
C2_ShebangFirst ==
    (FixCall /\ Rewrote /\ HasPrefix(last.before, <<"#", "!">>)) =>
        HasPrefix(files[last.id], FirstLine(last.before) \o <<"\n">>)

C2_Witness ==
    /\ FixCall /\ last.fr.Action = ActionReplace
    /\ last.before = PieceShebang \o PieceStale

\* C3: when directive lines precede the header position, the written file
\* is the shebang line (if any), the rendered header, exactly one blank line,
\* and then the directive block, which begins with those directive lines in
\* their original order.
C3_DirectivesBelowHeader ==
    (FixCall /\ Rewrote) =>
        LET holds(dirs, shebangEnd) ==
                Len(dirs) > 0 =>
                    \E i \in 1..Len(CallRules) :
                        LET top == Slice(last.before, 0, shebangEnd)
                                   \o (IF shebangEnd > 0 THEN <<"\n">> ELSE <<>>)
                                   \o Terminated(CallRules[i].Content) \o <<"\n">>
                            tail == From(files[last.id], Len(top))
                        IN /\ HasPrefix(files[last.id], top)
                           /\ FirstLine(tail) = dirs[1]
                           /\ IsPrefixSeq(dirs,
                                  NonBlankLines(Slice(tail, 0, skipBlankAndDirectives(tail, 0))))
        IN holds(LeadingDirectives(last.before), findShebangEnd(last.before))

StaleVariables(hdr, rule) ==
    /\ rule.found
    /\ rule.Content # hdr
    /\ ~headersStructurallyEqual(hdr, rule.Content)

\* C5: with RespectGit, a header with stale variables is left alone (none,
\* bytes unchanged) when the file is not touched, and replaced by the
\* rendered header when it is touched.
C5_StaleVariables ==
    (FixCall /\ opts.RespectGit) =>
        LET holds(hdr, rule) ==
                StaleVariables(hdr, rule) =>
                    /\ git.touched = "no" =>
                          /\ last.fr.Action = ActionNone /\ ~last.write
                          /\ files[last.id] = last.before
                    /\ git.touched = "yes" =>
                          /\ last.fr.Action = ActionReplace /\ last.write
                          /\ Contains(files[last.id], rule.Content)
        IN holds(CallHeader, MatchedRule)

C5_Witness ==
    /\ FixCall /\ opts.RespectGit
    /\ git.touched = "no"
    /\ last.before = PieceStale \o PieceCode
    /\ StaleVariables(CallHeader, MatchedRule)

\* C6: a replace of a semantically matching header is in place: the lines
\* of the previous header are gone from the file and the rendered header
\* occurs in it exactly once.
C6_ReplaceInPlace ==
    (FixCall /\ last.fr.Action = ActionReplace) =>
        LET holds(hdr, rule) ==
                StaleVariables(hdr, rule) =>
                    /\ ~Contains(files[last.id], TrimRight(hdr, NLCR))
                    /\ Count(files[last.id], TrimRight(rule.Content, NLCR)) = 1
        IN holds(CallHeader, MatchedRule)

\* C7: with RespectGit, fix mode never rewrites a file that is not touched.
C7_UntouchedNeverRewritten ==
    (last.valid /\ last.fix /\ opts.RespectGit /\ git.touched = "no") =>
        (~last.write /\ files[last.id] = last.before)

\* what check mode reports for an analysed file
CheckReport ==
    (Analysed /\ ~last.fix) =>
        last.fr.Action = (IF MatchedRule.found THEN ActionNone
                          ELSE IF Len(CallHeader) > 0 THEN ActionReplace
                          ELSE ActionInsert)

\* C8: a Process call in check mode changes no file, whatever it reports;
\* it reports none on a semantic match and otherwise replace when a header
\* region exists, else insert.
C8_CheckNeverWrites ==
    /\ [][(pc = "running" /\ ~fix) => (files' = files /\ ~last'.write)]_vars
    /\ []CheckReport

C8_Witness ==
    /\ Analysed /\ ~last.fix /\ last.walked
    /\ last.fr.Action = ActionReplace
    /\ Len(results) > 1

IsTemplateFile == \E i \in 1..Len(opts.Rules) : Clean(opts.Rules[i].TemplatePath) = last.id

\* C10: a template source yields none and is neither read nor written, in
\* both modes, passed directly or reached by traversal, even when a rule's
\* patterns accept it.
C10_TemplateSkipped ==
    (last.valid /\ IsTemplateFile) =>
        /\ last.fr.Action = ActionNone /\ last.fr.Err = ""
        /\ ~last.read /\ ~last.write
        /\ files[last.id] = last.before

C10_Witness ==
    /\ last.valid /\ IsTemplateFile
    /\ last.walked /\ last.fix
    /\ hasAnyTemplateForPath(opts, relativePath(opts, last.path))

\* C17: New is all-or-nothing: when the template of a rule with a non-blank
\* path cannot be read, New returns an error and no engine; otherwise the
\* engine holds exactly the rules with non-blank paths, in input order, each
\* with its (newline-normalized) content loaded.
C17_NewAllOrNothing ==
    (call.op = "New" /\ call.done) =>
        LET holds(kept) ==
                IF \E i \in 1..Len(kept) :
                       \/ kept[i].TemplatePath \notin FileIds
                       \/ perm[kept[i].TemplatePath] = "none"
                THEN call.err /\ pc = "failed" /\ opts = NoEngine
                ELSE /\ ~call.err /\ pc = "idle"
                     /\ opts.Root = call.in.Root /\ opts.Force = call.in.Force
                     /\ Len(opts.Rules) = Len(kept)
                     /\ \A i \in 1..Len(kept) :
                           /\ opts.Rules[i].TemplatePath = kept[i].TemplatePath
                           /\ opts.Rules[i].Include = kept[i].Include
                           /\ opts.Rules[i].Exclude = kept[i].Exclude
                           /\ opts.Rules[i].Content =
                                  normalizeNewlines(files[kept[i].TemplatePath])
        IN holds(SelectSeq(call.in.Rules, LAMBDA tr : tr.TemplatePath \notin {<<"">>, BlankPath}))

C17_Witness ==
    /\ call.op = "New" /\ call.done /\ call.err
    /\ Len(call.in.Rules) = 2
    /\ call.in.Rules[1].TemplatePath = Tmpl1 /\ perm[Tmpl1] = "rw"
    /\ call.in.Rules[2].TemplatePath = Tmpl2 /\ perm[Tmpl2] = "none"

\* C11: the exit status of a check-mode run in which some file needs insert
\* or replace is non-zero and differs from the exit status of a run ended by
\* an internal error (engine construction or processing failure).
C11_DistinctExitStatuses ==
    (/\ cli.stage = "exited" /\ ~cli.fatal /\ ~cli.fix
     /\ \E i \in 1..Len(results) :
           results[i].Err = "" /\ results[i].Action \in {ActionInsert, ActionReplace})
        => cli.exit # ExitOk /\ cli.exit # ExitFatal

\* C19: when --include (resp. --exclude) is given, every template rule that
\* has no include (resp. exclude) of its own, from the configuration file or
\* from --template, is compiled with the value of the flag.
C19_FlagDefaults ==
    (cli.stage \in {"engine", "exited"} /\ ~cli.fatal) =>
        LET fromFile == IF cli.yaml.found THEN cli.yaml.templates
                        ELSE <<TemplateDef(<<".header.txt">>, "", "")>>
            fromFlag == [i \in 1..Len(cli.templates) |->
                            TemplateDef(cli.templates[i], "", "")]
            holds(defs) ==
                /\ Len(opts.Rules) = Len(defs)
                /\ \A i \in 1..Len(defs) :
                      /\ (defs[i].Include = "" /\ cli.include # "")
                            => opts.Rules[i].Include = Compile(cli.include).rx
                      /\ (defs[i].Exclude = "" /\ cli.exclude # "")
                            => opts.Rules[i].Exclude = Compile(cli.exclude).rx
        IN holds(fromFile \o fromFlag)

\* the non-directory entries Process visits for paths, in visiting order
RECURSIVE Visited(_)
Visited(paths) ==
    IF paths = <<>> THEN <<>>
    ELSE LET p == Head(paths)
             names == DirEntries(Clean(p))
             here == IF Clean(p) \notin DirIds THEN <<p>>
                     ELSE IF BaseName(p) \in SkipDirNames THEN <<>>
                     ELSE Visited([i \in 1..Len(names) |-> Join(p, names[i])])
         IN here \o Visited(Tail(paths))

C15_CancelBetweenFiles ==
    ctx.done =>
        /\ Len(results) >= ctx.seen + 2 =>
              ~(/\ last.valid /\ last.fr = results[Len(results)]
                /\ last.read \/ last.write)
        /\ (pc = "running" /\ queue = <<>>) => ProcessError(ctx) = "canceled"

\* C12: author differences are ignored by matching: a file whose header is
\* the %author% template rendered with another author value (another name,
\* or "unknown" against a real name) semantically matches the rendered
\* header, so check mode reports none.
C12_AuthorIgnored ==
    (/\ pc = "running" /\ last.valid /\ ~last.fix
     /\ \E a \in AuthorPool \ {git.author} :
           CallHeader = renderContent(TemplateAuthor, a, git.created, git.updated))
        => /\ last.fr.Action = ActionNone /\ last.fr.Err = ""
           /\ headerSemanticallyMatches(CallHeader, CallRules[1].Content)

\* C18: the output of NormalizeNewlines contains no CR LF sequence, so
\* applying NormalizeNewlines a second time changes nothing.
C18_NoCRLFLeft ==
    (call.op = "NormalizeNewlines" /\ call.n >= 1) =>
        /\ \A i \in 1..(Len(call.out[2]) - 1) :
              ~(call.out[2][i] = "\r" /\ call.out[2][i + 1] = "\n")
        /\ call.n = 2 => call.out[3] = call.out[2]

C14_VariableDifferencesAccepted ==
    (/\ call.op = "HeaderSemanticallyMatches" /\ call.done
     /\ call.a.lit = call.b.lit /\ call.a.ws = call.b.ws
     /\ call.a.tok.kind = call.b.tok.kind /\ call.a.tok.kind # "none")
        => call.out

\* C20: in every file fix mode writes (insert or replace), exactly one blank
\* line lies between the last line of the rendered header and the next
\* non-blank line; a line is blank when it holds nothing but whitespace.
C20_OneBlankLineAfterHeader ==
    (FixCall /\ Rewrote) =>
        LET blank(l) == TrimSpace(l) = <<>>
            after(ls) == (\E k \in 1..Len(ls) : ~blank(ls[k]))
                            => (Len(ls) >= 2 /\ blank(ls[1]) /\ ~blank(ls[2]))
            holds(shebangEnd) ==
                \E i \in 1..Len(CallRules) :
                    LET top == Slice(last.before, 0, shebangEnd)
                               \o (IF shebangEnd > 0 THEN <<"\n">> ELSE <<>>)
                               \o TrimRight(CallRules[i].Content, NLCR)
                    IN /\ HasPrefix(files[last.id], top \o <<"\n">>)
                       /\ after(Lines(From(files[last.id], Len(top) + 1)))
        IN holds(findShebangEnd(last.before))

\* C21: in every file fix mode writes for an input that begins with #!,
\* exactly one blank line separates the shebang line from the rendered
\* header, also when the shebang line is the whole file or has no newline.
C21_OneBlankLineAfterShebang ==
    (FixCall /\ Rewrote /\ HasPrefix(last.before, <<"#", "!">>)) =>
        \E i \in 1..Len(CallRules) :
            HasPrefix(files[last.id],
                      FirstLine(last.before) \o <<"\n", "\n">>
                          \o TrimRight(CallRules[i].Content, NLCR))

\* C22: for every content, DetectHeaderBlock returns offsets with
\* 0 <= start <= end <= len(content), the header bytes are content[start:end],
\* and a header that is found starts at or past the end of the shebang line.
C22_HeaderRegion ==
    (call.op = "DetectHeaderBlock" /\ call.done) =>
        LET shebangEnd ==
                IF Len(call.in) >= 2 /\ call.in[1] = "#" /\ call.in[2] = "!"
                THEN IF \E k \in 1..Len(call.in) : call.in[k] = "\n"
                     THEN CHOOSE k \in 1..Len(call.in) :
                              /\ call.in[k] = "\n"
                              /\ \A j \in 1..(k - 1) : call.in[j] # "\n"
                     ELSE Len(call.in)
                ELSE 0
        IN /\ 0 <= call.out.start /\ call.out.start <= call.out.end
           /\ call.out.end <= Len(call.in)
           /\ call.out.header = SubSeq(call.in, call.out.start + 1, call.out.end)
           /\ Len(call.out.header) > 0 => call.out.start >= shebangEnd

C22_Witness ==
    /\ call.op = "DetectHeaderBlock" /\ call.done
    /\ call.in = PieceShebang \o PieceStale
    /\ call.out.header = PieceStale /\ call.out.start = Len(PieceShebang)

\* C24: for every content beginning with #! (with or without a newline on
\* the shebang line) and every header, the first line of
\* InsertHeader(content, header) is exactly the original shebang line, the
\* header starts on the following line, and the rest of the content follows
\* the header after one blank line.
C24_InsertHeaderKeepsShebang ==
    (call.op = "InsertHeader" /\ call.done /\ HasPrefix(call.in, <<"#", "!">>)) =>
        LET shebang == FirstLine(call.in)
            rest == TrimLeft(From(call.in, Len(shebang) + 1), NLCR)
        IN call.out = shebang \o <<"\n">> \o TrimRight(call.header, NLCR)
                          \o <<"\n", "\n">> \o rest

C25_ActionDomain ==
    \A i \in 1..Len(results) :
        results[i].Action \in {ActionNone, ActionInsert, ActionReplace}

\* C26: among the rules whose include/exclude accept the path (a matching
\* exclude rejects a rule even when its include matches), the rule used for a
\* matched file is the lowest-indexed one whose rendered header semantically
\* matches the detected header; no match (insert or replace for a missing or
\* foreign header) is reported only when no applicable rule matches.
C26_RuleOrder ==
    (Analysed /\ last.fr.Err = "") =>
        LET used(rule, hdr) ==
                IF ~last.fix THEN last.fr.Action = ActionNone
                ELSE IF \/ TrimRight(hdr, NLCR) = TrimRight(rule.Content, NLCR)
                        \/ opts.RespectGit /\ git.touched # "yes"
                THEN last.fr.Action = ActionNone /\ ~last.write
                ELSE /\ last.fr.Action = ActionReplace
                     /\ HasPrefix(files[last.id], TrimRight(rule.Content, NLCR) \o <<"\n">>)
            holds(rel, rend, hdr) ==
                LET applicable ==
                        {i \in 1..Len(rend) :
                            /\ ~(rend[i].Exclude.compiled /\ rel \in rend[i].Exclude.lang)
                            /\ rend[i].Include.compiled => rel \in rend[i].Include.lang}
                    matching ==
                        {i \in applicable : headerSemanticallyMatches(hdr, rend[i].Content)}
                IN IF applicable = {} THEN FALSE
                   ELSE IF matching = {}
                   THEN last.fr.Action \in {ActionInsert, ActionReplace}
                   ELSE used(rend[CHOOSE i \in matching : \A j \in matching : i <= j], hdr)
        IN holds(relativePath(opts, last.path), renderTemplates(opts, git, last.path),
                 CallHeader)

C26_Witness ==
    /\ Analysed /\ last.fix /\ last.fr.Action = ActionReplace
    /\ opts.Rules[1].TemplatePath = Tmpl1 /\ Len(opts.Rules) = 2
    /\ last.before = PieceStale /\ git.touched = "yes"
    /\ HasPrefix(files[last.id], PieceFresh)

C28_LegacyHeaderDemoted ==
    (FixCall /\ Rewrote /\ Len(CallRules) > 0 /\ Len(CallHeader) > 0 /\ ~MatchedRule.found) =>
        LET out == files[last.id]
            header == TrimRight(CallRules[1].Content, NLCR) \o <<"\n">>
            shebang == IF HasPrefix(last.before, <<"#", "!">>)
                       THEN FirstLine(last.before) ELSE <<>>
            remainder(legacy, relocated, rest) ==
                /\ \A i \in 1..Len(legacy) : \E j \in 1..Len(relocated) : relocated[j] = legacy[i]
                /\ HasSuffix(last.before, rest)
            comments(d, e) ==
                remainder(NonBlankLines(CallHeader), Lines(Slice(out, d, e)), From(out, e))
            directives(d) == comments(d, topCommentsEndAfterRemoval(out, d))
            ordered(b) ==
                /\ HasPrefix(From(out, b), header)
                /\ directives(skipBlankAndDirectives(out, b + Len(header)))
            below(a, tail) == ordered(a + Len(tail) - Len(TrimLeft(tail, NLCR)))
        IN /\ HasPrefix(out, shebang)
           /\ below(Len(shebang), From(out, Len(shebang)))

C28_Witness ==
    /\ FixCall /\ last.fr.Action = ActionReplace /\ ~MatchedRule.found
    /\ last.before = PieceLegacy \o PieceDirective
    /\ files[last.id] = PieceFresh \o PieceBlank \o PieceDirective \o PieceBlank
                             \o PieceLegacy \o PieceBlank

\* number of elements of seq equal to l
Occurrences(seq, l) == Cardinality({i \in DOMAIN seq : seq[i] = l})

C30_TouchedErrorIsUntouched ==
    (Analysed /\ last.fix /\ opts.RespectGit /\ Touched(git).err
        /\ StaleVariables(CallHeader, MatchedRule)) =>
            /\ last.fr.Action = ActionNone
            /\ last.fr.Err = ""
            /\ ~last.write
            /\ files[last.id] = last.before

C30_Witness ==
    /\ Analysed /\ last.fix /\ opts.RespectGit /\ git.touched = "err"
    /\ last.before = PieceStale /\ MatchedRule.Content = PieceFresh
    /\ last.fr.Action = ActionNone /\ files[last.id] = PieceStale

====
